---- MODULE Spec2Model ----
(***************************************************************************)
(* A model of rfmizer.py: the Rfmizer object (users, max_date, borders,    *)
(* ratios), its order aggregation (load_input), metric engine (metricize), *)
(* segment binner (segmentize), rfmize, rationize and save_output.         *)
(*                                                                         *)
(* Dates are day numbers counted from 2000-01-01.  An optional value       *)
(* (Python None or a number) is the empty tuple or a one-element tuple.    *)
(* A metric is a tagged record: "stale", "none" (Python None) or "num",    *)
(* a reduced fraction n/d, so that the mean of order values is exact.      *)
(* The configuration has no auxiliary input columns, so the dict           *)
(* user['dimensions'] holds only the segments segmentize writes into it.   *)
(* An uncaught Python exception ends the run: err names it and no further  *)
(* operation is taken.                                                     *)
(***************************************************************************)
EXTENDS Integers, Sequences, FiniteSets, Bags, TLC

VARIABLES
  users,      \* self.users: uid -> [orders, max_date, metrics, dimensions]
  uorder,     \* iteration order of the dict self.users (insertion order)
  max_date,   \* self.max_date
  borders,    \* self.borders: dimension -> (segment -> metric)
  ratios,     \* self.ratios: micro-segment -> ratio
  saved,      \* what save_mapping / save_borders / save_ratios wrote
  err,        \* "none", or the exception that ended the run
  conf,       \* conf['segments_count']: dimension -> count
  look_back,  \* self.look_back_delta, in days
  py,         \* major version of the interpreter, 2 or 3 (int / int differs)
  hist,       \* the operations called so far, the last with its argument
  seglog,     \* the segmentize calls of the last operation, per dimension
  loaded,     \* the population as load_input left it
  rows        \* the bag of rows load_input has consumed

vars == <<users, uorder, max_date, borders, ratios, saved, err, conf,
          look_back, py,
          hist, seglog, loaded, rows>>

\* ---- bounds of the model ----
MaxUsers == 2
SegUsers == 3
MaxDate == 2
MaxValue == 1
MaxOrders == 3
MaxSegments == 3
MaxOps == 2
MaxLookBack == 2
MaxRows == 3

\* ---- constants of the program and its configuration ----
Epoch2000 == 0
Date2200 == 73049
prediction_period == 1

RFM_DIMENSIONS == {"recency", "frequency", "monetary"}

Dates == 0..MaxDate

None == <<>>
Some(v) == <<v>>
EmptyMap == [x \in {} |-> 0]

\* ---- small arithmetic ----
Abs(x) == IF x < 0 THEN -x ELSE x

RECURSIVE GCD(_, _)
GCD(a, b) == IF b = 0 THEN a ELSE GCD(b, a % b)

MaxOf(S) == CHOOSE x \in S : \A y \in S : y <= x
MinOf(S) == CHOOSE x \in S : \A y \in S : x <= y

RECURSIVE SumOver(_, _)
SumOver(S, f) ==
  IF S = {} THEN 0
  ELSE LET x == CHOOSE y \in S : TRUE IN f[x] + SumOver(S \ {x}, f)

\* a / b as the float it is: the reduced fraction, b > 0 or b < 0
Frac(a, b) ==
  LET g == GCD(Abs(a), Abs(b))
      s == IF b < 0 THEN -1 ELSE 1
  IN [n |-> s * (a \div g), d |-> s * (b \div g)]

FracGE(a, b) == a.n * b.d >= b.n * a.d
FracLT(a, b) == a.n * b.d < b.n * a.d

\* ---- metrics ----
Stale == [k |-> "stale", n |-> 0, d |-> 1]
NoneMetric == [k |-> "none", n |-> 0, d |-> 1]
Num(n) == [k |-> "num", n |-> n, d |-> 1]
NumFrac(f) == [k |-> "num", n |-> f.n, d |-> f.d]

MetricGE(a, b) == FracGE(a, b)
MetricLT(a, b) == FracLT(a, b)

\* ---- parse_date, parse_value on the strings the model feeds them ----
DateStrings == {"2000-01-02", "03.01.2000", "n/a", "2000-13-01"}
ValueStrings == {"n/a", "0", "1", "-1"}

\* the pattern matches year-month-day or day-month-year; None when it does not
parse_date(s) ==
  CASE s = "2000-01-02" -> Some(1)
    [] s = "03.01.2000" -> Some(2)
    [] OTHER -> None

\* the pattern matches but strptime rejects the month: ValueError
parse_date_raises(s) == s = "2000-13-01"

parse_value(s) ==
  CASE s = "0" -> Some(0)
    [] s = "1" -> Some(1)
    [] s = "-1" -> Some(0 - 1)
    [] OTHER -> None

\* ---- metricize ----
InWindow(user, today) ==
  {d \in DOMAIN user.orders : today - look_back <= d /\ d <= today}

IsFuture(user, today) ==
  /\ InWindow(user, today) = {}
  /\ MinOf(DOMAIN user.orders \cup {Date2200}) > today

MetricsOf(user, today) ==
  LET inw == InWindow(user, today)
      u_max_date == MaxOf(inw \cup {Epoch2000})
      non_zero == {d \in inw : user.orders[d] # None}
      non_zero_sum == SumOver(non_zero, [d \in non_zero |-> user.orders[d][1]])
      average_order ==
        IF Cardinality(non_zero) > 0
        THEN NumFrac(Frac(non_zero_sum, Cardinality(non_zero)))
        ELSE NoneMetric
  IN IF inw = {}
     THEN [recency |-> Stale, frequency |-> Stale, monetary |-> Stale]
     ELSE [recency |-> Num(u_max_date - today),
           frequency |-> Num(Cardinality(inw)),
           monetary |-> average_order]

\* st is the object's state: [users, uorder, borders, ratios, saved, err, seglog]
metricize(st, today) ==
  IF st.err # "none" THEN st
  ELSE
    LET future_uids == {u \in DOMAIN st.users : IsFuture(st.users[u], today)}
        kept == DOMAIN st.users \ future_uids
    IN [st EXCEPT
          !.users = [u \in kept |->
                       [st.users[u] EXCEPT !.metrics = MetricsOf(st.users[u], today)]],
          !.uorder = SelectSeq(st.uorder, LAMBDA u : u \in kept)]

\* ---- segmentize ----
Key(st, dimension, uid) == st.users[uid].metrics[dimension]

\* the list left in the order of the dict, as if the sort were missing
SortByMetric_unsorted(st, dimension, uids) == uids

\* uids.sort(key=...): a stable sort, ascending by metric
RECURSIVE SortByMetric(_, _, _)
SortByMetric(st, dimension, uids) ==
  IF uids = <<>> THEN <<>>
  ELSE
    LET n == Len(uids)
        x == uids[n]
        s == SortByMetric(st, dimension, SubSeq(uids, 1, n - 1))
        p == Cardinality({j \in 1..Len(s) :
               ~MetricLT(Key(st, dimension, x), Key(st, dimension, s[j]))})
    IN SubSeq(s, 1, p) \o <<x>> \o SubSeq(s, p + 1, Len(s))

\* a / b for two non-negative ints: floor in Python 2, the quotient in Python 3
IntDiv(a, b) == IF py = 2 THEN [n |-> a \div b, d |-> 1] ELSE [n |-> a, d |-> b]

\* i >= max_i and max_i = i + q, with max_i and q fractions
ReachedMax(i, max_i) == i * max_i.d >= max_i.n
PlusInt(i, q) == [n |-> i * q.d + q.n, d |-> q.d]

\* one pass of the loop body of the frozen-border mode
FrozenStep(w, metric, segments_count, bord) ==
  IF w.segment < segments_count /\ MetricGE(metric, bord[w.segment])
  THEN [w EXCEPT !.segment = w.segment + 1]
  ELSE w

\* the fresh-border step without the test metric != prev_metric
FreshStep_split(w, i, metric, uids_count, segments_count) ==
  IF ReachedMax(i, w.max_i) /\ segments_count - w.segment > 0
  THEN [w EXCEPT !.bord = w.segment :> metric @@ w.bord,
                 !.segment = w.segment + 1,
                 !.max_i = PlusInt(i, IntDiv(uids_count - i,
                                             segments_count - w.segment))]
  ELSE w

\* one pass of the loop body of the fresh-border mode
FreshStep(w, i, metric, uids_count, segments_count) ==
  IF ReachedMax(i, w.max_i) /\ metric # w.prev_metric
  THEN LET segment == w.segment + 1
           remaining == segments_count - segment + 1
       IN IF remaining = 0
          THEN [w EXCEPT !.bord = w.segment :> metric @@ w.bord,
                         !.segment = segment,
                         !.err = "ZeroDivisionError"]
          ELSE [w EXCEPT !.bord = w.segment :> metric @@ w.bord,
                         !.segment = segment,
                         !.max_i = PlusInt(i, IntDiv(uids_count - i, remaining))]
  ELSE w

\* for i in range(0, uids_count): the walk over the sorted uids from index i
RECURSIVE Walk(_, _, _, _, _, _)
Walk(st, dimension, uids, frozen, segments_count, wi) ==
  LET w == wi[1]
      i == wi[2]
  IN IF i >= Len(uids) \/ w.err # "none" THEN w
     ELSE
       LET uid == uids[i + 1]
           metric == Key(st, dimension, uid)
           w1 == IF frozen
                 THEN FrozenStep(w, metric, segments_count, st.borders[dimension])
                 ELSE FreshStep(w, i, metric, Len(uids), segments_count)
           w2 == IF w1.err # "none" THEN w1
                 ELSE [w1 EXCEPT !.prev_metric = metric,
                                 !.seg = uid :> w1.segment @@ w1.seg]
       IN Walk(st, dimension, uids, frozen, segments_count, <<w2, i + 1>>)

\* borders recomputed on every call
by_borders_never(st, dimension) == FALSE

\* by_borders = dimension in self.borders

by_borders(st, dimension) == dimension \in DOMAIN st.borders

segmentize(st, dimension) ==
  IF st.err # "none" THEN st
  ELSE
    LET frozen == by_borders(st, dimension)
        known == dimension \in DOMAIN st.borders
        segments_count ==
          IF frozen THEN Cardinality(DOMAIN st.borders[dimension]) + 1
          ELSE conf[dimension]
        borders0 ==
          IF frozen THEN st.borders ELSE dimension :> EmptyMap @@ st.borders
        no_metrics == {u \in DOMAIN st.users : DOMAIN st.users[u].metrics = {}}
        ranked == IF no_metrics # {} THEN <<>>
                  ELSE SelectSeq(st.uorder,
                         LAMBDA u : Key(st, dimension, u).k = "num")
        uids == SortByMetric(st, dimension, ranked)
        reserved == [u \in DOMAIN st.users |->
                       IF Key(st, dimension, u).k = "none" THEN Some(1)
                       ELSE IF Key(st, dimension, u).k = "stale" THEN Some(0)
                       ELSE None]
        Assign(seg) ==
          [u \in DOMAIN st.users |->
             IF u \in DOMAIN seg
             THEN [st.users[u] EXCEPT
                     !.dimensions = dimension :> seg[u] @@ st.users[u].dimensions]
             ELSE IF reserved[u] # None
             THEN [st.users[u] EXCEPT
                     !.dimensions = dimension :> reserved[u][1] @@ st.users[u].dimensions]
             ELSE st.users[u]]
        Entry(bord, seg, done) ==
          [dimension |-> dimension, known |-> known,
           before |-> IF known THEN st.borders[dimension] ELSE EmptyMap,
           after |-> bord[dimension],
           ranked |-> [j \in 1..Len(uids) |->
                         [uid |-> uids[j], metric |-> Key(st, dimension, uids[j]),
                          segment |-> IF uids[j] \in DOMAIN seg
                                      THEN seg[uids[j]] ELSE 0]],
           completed |-> done]
        Logged(e) == [st.seglog EXCEPT ![dimension] = Append(@, e)]
    IN IF no_metrics # {}
       THEN \* user['metrics'] of the first user: KeyError
            [st EXCEPT !.borders = borders0, !.err = "KeyError",
                       !.seglog = Logged(Entry(borders0, EmptyMap, FALSE))]
       ELSE IF ~frozen /\ uids = <<>>
       THEN \* uids[0] of an empty list: IndexError
            [st EXCEPT !.borders = borders0, !.users = Assign(EmptyMap),
                       !.err = "IndexError",
                       !.seglog = Logged(Entry(borders0, EmptyMap, FALSE))]
       ELSE
         LET w0 == [segment |-> 1,
                    max_i |-> IF frozen THEN [n |-> 0, d |-> 1]
                              ELSE IntDiv(Len(uids), segments_count),
                    prev_metric |-> IF frozen THEN NoneMetric
                                    ELSE Key(st, dimension, uids[1]),
                    bord |-> EmptyMap, seg |-> EmptyMap, err |-> "none"]
             w == Walk(st, dimension, uids, frozen, segments_count, <<w0, 0>>)
             borders1 == IF frozen THEN st.borders
                         ELSE dimension :> w.bord @@ st.borders
         IN [st EXCEPT !.borders = borders1, !.users = Assign(w.seg),
                       !.err = w.err,
                       !.seglog = Logged(Entry(borders1, w.seg, w.err = "none"))]

\* ---- rfmize ----
RECURSIVE SegmentizeAll(_, _)
SegmentizeAll(st, dims) ==
  IF dims = <<>> THEN st
  ELSE SegmentizeAll(segmentize(st, Head(dims)), Tail(dims))

\* today is None or Some(date); dims is the order in which the set
\* RFM_DIMENSIONS is iterated
rfmize(st, today, dims) ==
  LET t == IF today = None THEN max_date ELSE today[1]
  IN SegmentizeAll(metricize(st, t), dims)

\* ---- rationize ----
\* tuple(sorted(user['dimensions'].items())): the segments in the order of
\* the dimensions' names
MicroSegment(user) ==
  <<user.dimensions["frequency"], user.dimensions["monetary"],
    user.dimensions["recency"]>>

FutureOrdersValue(user, prediction_date) ==
  LET ds == {d \in DOMAIN user.orders :
               /\ user.orders[d] # None
               /\ user.orders[d][1] # 0
               /\ d > prediction_date}
  IN SumOver(ds, [d \in ds |-> user.orders[d][1]])

\* lines 278-299 of rationize, on the population rfmize has left
bid_ratios(s1, prediction_date) ==
  LET us == DOMAIN s1.users
      value == [u \in us |-> FutureOrdersValue(s1.users[u], prediction_date)]
      total_orders_value == SumOver(us, value)
      keys == {MicroSegment(s1.users[u]) : u \in us}
      members == [k \in keys |-> {u \in us : MicroSegment(s1.users[u]) = k}]
      segments == [k \in keys |->
                     [users_count |-> Cardinality(members[k]),
                      orders_value |-> SumOver(members[k], value)]]
  IN IF s1.err # "none" THEN s1
     ELSE IF us = {}
     THEN \* total_orders_value / len(self.users)
          [s1 EXCEPT !.err = "ZeroDivisionError"]
     ELSE IF total_orders_value = 0
     THEN \* self.ratios = {} and then x / users_count / 0
          [s1 EXCEPT !.ratios = EmptyMap, !.err = "ZeroDivisionError"]
     ELSE [s1 EXCEPT !.ratios =
             [k \in keys |->
                Frac(segments[k].orders_value * Cardinality(us),
                     segments[k].users_count * total_orders_value)]]

rationize(st, dims) ==
  bid_ratios(rfmize(st, Some(max_date - prediction_period), dims),
             max_date - prediction_period)

\* ---- save_mapping, save_borders, save_ratios, save_output ----
save_mapping(st) ==
  IF st.err # "none" THEN st
  ELSE IF DOMAIN st.users = {}
  THEN \* next(iter(self.users.values()))
       [st EXCEPT !.err = "StopIteration"]
  ELSE [st EXCEPT !.saved.mapping = [u \in DOMAIN st.users |-> st.users[u].dimensions]]

save_borders(st) ==
  IF st.err # "none" THEN st ELSE [st EXCEPT !.saved.borders = st.borders]

save_ratios(st) ==
  IF st.err # "none" THEN st
  ELSE IF DOMAIN st.users = {} THEN [st EXCEPT !.err = "StopIteration"]
  ELSE [st EXCEPT !.saved.ratios = st.ratios]

\* save_output with rationize run as on a new object, its borders empty
forget_borders(st) == [st EXCEPT !.borders = EmptyMap]

save_output_fresh(st, dims) ==
  save_ratios(rationize(
    forget_borders(save_borders(save_mapping(rfmize(st, None, dims)))), dims))

save_output(st, dims) ==
  save_ratios(rationize(save_borders(save_mapping(rfmize(st, None, dims))), dims))

\* ---- load_input ----
LoadUIDs == {1, 2}
Rows == [user_id : LoadUIDs, order_date : DateStrings, order_value : ValueStrings]

\* if order_value: ... += order_value, with None for no value yet
AddValue_overwrite(stored, order_value) ==
  IF order_value # None /\ order_value[1] # 0 THEN order_value ELSE stored

AddValue(stored, order_value) ==
  IF order_value # None /\ order_value[1] # 0
  THEN IF stored = None THEN order_value ELSE Some(stored[1] + order_value[1])
  ELSE stored

\* the body of the loop over the rows, for a row whose date parses
load_row(us, row) ==
  LET order_date == parse_date(row.order_date)[1]
      order_value == parse_value(row.order_value)
      user_id == row.user_id
      u0 == IF user_id \in DOMAIN us THEN us[user_id]
            ELSE [orders |-> EmptyMap, max_date |-> order_date,
                  metrics |-> EmptyMap, dimensions |-> EmptyMap]
      stored == IF order_date \in DOMAIN u0.orders THEN u0.orders[order_date]
                ELSE None
      u1 == [u0 EXCEPT
               !.orders = order_date :> AddValue(stored, order_value) @@ u0.orders,
               !.max_date = IF order_date > u0.max_date THEN order_date
                            ELSE u0.max_date]
  IN user_id :> u1 @@ us

LoadRow ==
  \E row \in Rows :
    /\ err = "none"
    /\ BagCardinality(rows) < MaxRows
    /\ rows' = rows (+) SetToBag({row})
    /\ IF parse_date_raises(row.order_date)
       THEN /\ err' = "ValueError"
            /\ UNCHANGED <<users, uorder, max_date>>
       ELSE IF parse_date(row.order_date) = None
       THEN UNCHANGED <<users, uorder, max_date, err>>
       ELSE /\ users' = load_row(users, row)
            /\ uorder' = IF row.user_id \in DOMAIN users THEN uorder
                         ELSE Append(uorder, row.user_id)
            /\ max_date' = IF parse_date(row.order_date)[1] > max_date
                           THEN parse_date(row.order_date)[1] ELSE max_date
            /\ UNCHANGED err
    /\ loaded' = users'
    /\ UNCHANGED <<borders, ratios, saved, conf, look_back, py, hist, seglog>>

\* ---- the object as a state machine ----
NoCalls == [d \in RFM_DIMENSIONS |-> <<>>]

Self == [users |-> users, uorder |-> uorder, borders |-> borders,
         ratios |-> ratios, saved |-> saved, err |-> err, seglog |-> NoCalls]

Becomes(st) ==
  /\ users' = st.users
  /\ uorder' = st.uorder
  /\ borders' = st.borders
  /\ ratios' = st.ratios
  /\ saved' = st.saved
  /\ err' = st.err
  /\ seglog' = st.seglog

Called(op, arg) ==
  /\ err = "none"
  /\ Len(hist) < MaxOps
  /\ hist' = Append([j \in 1..Len(hist) |-> [op |-> hist[j].op, arg |-> None]],
                     [op |-> op, arg |-> arg])
  /\ UNCHANGED <<max_date, conf, look_back, py, loaded, rows>>

\* the orders in which the set RFM_DIMENSIONS can be iterated: any, from one
\* run of the interpreter to the next
DimOrders ==
  {p \in [1..3 -> RFM_DIMENSIONS] : {p[j] : j \in 1..3} = RFM_DIMENSIONS}

Metricize ==
  \E today \in Dates :
    /\ Called("metricize", Some(today))
    /\ Becomes(metricize(Self, today))

Segmentize ==
  \E dimension \in RFM_DIMENSIONS :
    /\ Called("segmentize", <<dimension>>)
    /\ Becomes(segmentize(Self, dimension))

Rfmize ==
  \E today \in {None} \cup {Some(d) : d \in Dates}, dims \in DimOrders :
    /\ Called("rfmize", today)
    /\ Becomes(rfmize(Self, today, dims))

Rationize ==
  \E dims \in DimOrders :
    /\ Called("rationize", None)
    /\ Becomes(rationize(Self, dims))

SaveOutput ==
  \E dims \in DimOrders :
    /\ Called("save_output", None)
    /\ Becomes(save_output(Self, dims))

\* ---- the populations load_input can leave ----
NoSaved == [mapping |-> EmptyMap, borders |-> EmptyMap, ratios |-> EmptyMap]

Configs == {[d \in RFM_DIMENSIONS |-> n] : n \in 1..MaxSegments}

Population(cells, value) ==
  LET us == {c[1] : c \in cells}
      dates(u) == {c[2] : c \in {x \in cells : x[1] = u}}
  IN [u \in us |->
        [orders |-> [d \in dates(u) |-> value[<<u, d>>]],
         max_date |-> MaxOf(dates(u)),
         metrics |-> EmptyMap,
         dimensions |-> EmptyMap]]

\* the users are numbered in the order of their first rows
AscendingOrder(us) == [j \in 1..Cardinality(us) |-> j]

\* load_input has read a file with the orders of at most n customers
Loaded(n) ==
  /\ \E cells \in SUBSET ((1..n) \X Dates) :
       /\ Cardinality(cells) <= MaxOrders
       /\ {c[1] : c \in cells} = 1..Cardinality({c[1] : c \in cells})
       /\ \E value \in [cells -> {None} \cup {Some(v) : v \in 1..MaxValue}] :
            /\ users = Population(cells, value)
            /\ uorder = AscendingOrder(DOMAIN users)
            /\ max_date = MaxOf({c[2] : c \in cells} \cup {Epoch2000})
  /\ loaded = users
  /\ borders = EmptyMap
  /\ ratios = EmptyMap
  /\ saved = NoSaved
  /\ err = "none"
  /\ conf \in Configs
  /\ look_back \in 1..MaxLookBack
  /\ hist = <<>>
  /\ seglog = NoCalls
  /\ rows = EmptyBag

\* The whole interface on the orders of at most MaxUsers customers.  With so
\* few ranked customers int / int gives the same borders under both
\* interpreters; SegInit draws both.
Init == Loaded(MaxUsers) /\ py = 3

Next ==
  \/ Metricize
  \/ Segmentize
  \/ Rfmize
  \/ Rationize
  \/ SaveOutput

Spec == Init /\ [][Next]_vars

\* The metric engine and the segment binner on the orders of at most SegUsers
\* customers, under either interpreter.
SegInit == Loaded(SegUsers) /\ py \in {2, 3}

SegNext ==
  \/ Metricize
  \/ Segmentize
  \/ Rfmize

SegSpec == SegInit /\ [][SegNext]_vars

\* the object after construction, reading its input; the configuration plays
\* no part in load_input and is one of those Init draws
InitLoad ==
  /\ users = EmptyMap
  /\ uorder = <<>>
  /\ max_date = Epoch2000
  /\ loaded = EmptyMap
  /\ borders = EmptyMap
  /\ ratios = EmptyMap
  /\ saved = NoSaved
  /\ err = "none"
  /\ conf = [d \in RFM_DIMENSIONS |-> MaxSegments]
  /\ look_back = MaxLookBack
  /\ py = 3
  /\ hist = <<>>
  /\ seglog = NoCalls
  /\ rows = EmptyBag

NextLoad == LoadRow

SpecLoad == InitLoad /\ [][NextLoad]_vars

\* ---- what the claims speak of ----
LastOp == IF hist = <<>> THEN "none" ELSE hist[Len(hist)].op

\* the segmentize calls of the last operation
Calls ==
  UNION {{seglog[d][j] : j \in 1..Len(seglog[d])} : d \in RFM_DIMENSIONS}

Ranked(e) == 1..Len(e.ranked)

\* C1: a segmentize call for a dimension the borders table already has an
\* entry for leaves that entry as it was, and gives every ranked customer a
\* segment of the recorded borders: at most their count plus one, and at or
\* above the recorded border that opens the segment.
C1_FrozenBordersKept ==
  \A e \in Calls :
    e.known =>
      /\ e.after = e.before
      /\ borders[e.dimension] = e.before
      /\ \A r \in Ranked(e) :
           LET s == e.ranked[r].segment
           IN /\ s \in 1..(Cardinality(DOMAIN e.before) + 1)
              /\ s >= 2 => MetricGE(e.ranked[r].metric, e.before[s - 1])

\* a second operation segmentized a dimension whose borders an earlier
\* operation had recorded, and ranked customers against them
C1_Witness ==
  /\ Len(hist) = 2
  /\ \E e \in Calls :
       /\ e.known /\ e.completed
       /\ e.before # EmptyMap
       /\ \E r \in Ranked(e) : e.ranked[r].segment >= 2

\* C8: in frozen-border mode every ranked customer is in the segment its
\* metric falls into under the recorded borders, so equal metrics get the
\* same segment.
C8_FrozenPlacement ==
  \A e \in Calls :
    (e.known /\ e.completed) =>
      \A r \in Ranked(e) :
        LET s == e.ranked[r].segment
            m == e.ranked[r].metric
        IN /\ s >= 2 => MetricGE(m, e.before[s - 1])
           /\ s \in DOMAIN e.before => MetricLT(m, e.before[s])
           /\ \A q \in Ranked(e) :
                e.ranked[q].metric = m => e.ranked[q].segment = s

\* C9: in fresh-border mode the segment changes between two neighbours of
\* the sorted order only where the metric changes, so ranked customers with
\* equal metrics get the same segment.
C9_TiesNotSplit ==
  \A e \in Calls :
    (~e.known /\ e.completed) =>
      /\ \A r \in Ranked(e) :
           (r >= 2 /\ e.ranked[r].segment # e.ranked[r - 1].segment)
             => e.ranked[r].metric # e.ranked[r - 1].metric
      /\ \A r, q \in Ranked(e) :
           e.ranked[r].metric = e.ranked[q].metric
             => e.ranked[r].segment = e.ranked[q].segment

\* a fresh-border call met a tie at or past the target index and still
\* recorded a border later
C9_Witness ==
  \E e \in Calls :
    /\ ~e.known /\ e.completed
    /\ e.after # EmptyMap
    /\ \E r \in Ranked(e) :
         r >= 2 /\ e.ranked[r].metric = e.ranked[r - 1].metric

\* C10: the borders a fresh-border call records do not decrease with the
\* segment number, and the segments of the ranked customers do not decrease
\* with the metric.
C10_Monotonic ==
  \A e \in Calls :
    (~e.known /\ e.completed) =>
      /\ \A k \in DOMAIN e.after :
           (k + 1) \in DOMAIN e.after => MetricGE(e.after[k + 1], e.after[k])
      /\ \A r, q \in Ranked(e) :
           MetricLT(e.ranked[r].metric, e.ranked[q].metric)
             => e.ranked[r].segment <= e.ranked[q].segment

\* a fresh-border call recorded two borders
C10_Witness ==
  \E e \in Calls :
    /\ ~e.known /\ e.completed
    /\ Cardinality(DOMAIN e.after) >= 2

\* every dimension was segmentized by the last operation, to the end
SegmentationDone ==
  \A d \in RFM_DIMENSIONS :
    seglog[d] # <<>> /\ seglog[d][Len(seglog[d])].completed

\* C2 as stated: when save_output, called on the loaded population, has
\* completed, the borders of every dimension are those a fresh-border
\* segmentize computes from the metrics at the prediction date.
C2_RationizeFreshBorders ==
  (hist = <<[op |-> "save_output", arg |-> None]>> /\ err = "none") =>
    \A d \in RFM_DIMENSIONS :
      segmentize(forget_borders(Self), d).err = "none"
        => borders[d] = segmentize(forget_borders(Self), d).borders[d]

\* C2 as amended: in save_output, rationize segments the population as of
\* the prediction date with the borders the rfmize at the max date recorded:
\* its segmentize calls find the dimension in the borders table and leave the
\* table as save_borders wrote it.
C2_RationizeFrozenBorders ==
  LastOp = "save_output" =>
    /\ \A d \in RFM_DIMENSIONS :
         Len(seglog[d]) >= 2 =>
           /\ seglog[d][2].known
           /\ seglog[d][2].before = seglog[d][1].after
           /\ seglog[d][2].after = seglog[d][1].after
           /\ borders[d] = saved.borders[d]
    /\ err = "none" =>
         /\ SegmentationDone
         /\ \A u \in DOMAIN users :
              users[u].metrics =
                MetricsOf(users[u], max_date - prediction_period)

\* save_output completed, and rationize ranked customers against a border
\* recorded at the max date
C2_Witness ==
  /\ LastOp = "save_output"
  /\ err = "none"
  /\ \E d \in RFM_DIMENSIONS :
       /\ Len(seglog[d]) = 2
       /\ seglog[d][2].before # EmptyMap
       /\ seglog[d][2].ranked # <<>>

\* C3: rfmize called on a loaded population of at least one customer
\* completes, and leaves every customer it did not exclude with a segment in
\* 0..N for each of the three dimensions.
C3_RfmizeCompletes ==
  (Len(hist) = 1 /\ LastOp = "rfmize" /\ DOMAIN loaded # {}) =>
    /\ err = "none"
    /\ \A u \in DOMAIN users :
         /\ DOMAIN users[u].dimensions = RFM_DIMENSIONS
         /\ \A d \in RFM_DIMENSIONS : users[u].dimensions[d] \in 0..conf[d]

\* the exceptions of the interpreter that nothing in the program catches
Uncaught ==
  {"IndexError", "ZeroDivisionError", "KeyError", "StopIteration", "ValueError"}

\* C4: when rationize has segmentized a population that excluding the future
\* customers left empty, it ends in an error of its own and not in an
\* exception of the interpreter.
C4_EmptyPopulationReported ==
  (LastOp = "rationize" /\ SegmentationDone /\ DOMAIN users = {}) =>
    (err # "none" /\ err \notin Uncaught)

\* sum of f over S, f giving fractions
RECURSIVE FracSum(_, _)
FracSum(S, f) ==
  IF S = {} THEN [n |-> 0, d |-> 1]
  ELSE LET x == CHOOSE y \in S : TRUE
           r == FracSum(S \ {x}, f)
       IN Frac(f[x].n * r.d + r.n * f[x].d, f[x].d * r.d)

MicroSegments == {MicroSegment(users[u]) : u \in DOMAIN users}

MemberCount(k) == Cardinality({u \in DOMAIN users : MicroSegment(users[u]) = k})

\* C5: when rationize has segmentized a population of at least one
\* customer, it yields one ratio per observed micro-segment, and the sum of
\* ratio x member count over the micro-segments, divided by the number of
\* customers, is 1.
C5_RatiosCentered ==
  (LastOp = "rationize" /\ SegmentationDone /\ DOMAIN users # {}) =>
    /\ err = "none"
    /\ DOMAIN ratios = MicroSegments
    /\ FracSum(MicroSegments,
               [k \in MicroSegments |->
                  Frac(ratios[k].n * MemberCount(k), ratios[k].d)])
         = [n |-> Cardinality(DOMAIN users), d |-> 1]

\* what metricize made of a customer: excluded as future, or the metrics
Outcome(us, u) == IF u \in DOMAIN us THEN <<us[u].metrics>> ELSE <<>>

LoadedSelf ==
  [Self EXCEPT !.users = loaded, !.uorder = AscendingOrder(DOMAIN loaded)]

\* C7: after metricize(t1) and then metricize(t2) on the loaded population,
\* every loaded customer has the outcome metricize(t2) alone gives it.
C7_MetricizeRepeatable ==
  (Len(hist) = 2 /\ hist[1].op = "metricize" /\ hist[2].op = "metricize") =>
    \A u \in DOMAIN loaded :
      Outcome(users, u) = Outcome(metricize(LoadedSelf, hist[2].arg[1]).users, u)

\* ---- the claim about load_input ----
LoadDates == {parse_date(s)[1] : s \in {x \in DateStrings : parse_date(x) # None}}

\* the rows read for a customer and a date
RowsOf(u, d) ==
  {r \in BagToSet(rows) : r.user_id = u /\ parse_date(r.order_date) = Some(d)}

ParsedSum(R) ==
  SumOver(R, [r \in R |-> CopiesIn(r, rows) * parse_value(r.order_value)[1]])

Stored(u, d) ==
  IF u \in DOMAIN users /\ d \in DOMAIN users[u].orders
  THEN <<users[u].orders[d]>> ELSE <<>>

\* C6 as stated: a customer has an order on a date exactly when a row with a
\* parseable date was read for it; its value is the sum of the parsed values
\* of those rows, and None exactly when none of them had a parseable value.
C6_SumOfParsedValues ==
  \A u \in LoadUIDs, d \in LoadDates :
    LET R == RowsOf(u, d)
        P == {r \in R : parse_value(r.order_value) # None}
    IN IF R = {} THEN Stored(u, d) = <<>>
       ELSE IF P = {} THEN Stored(u, d) = <<None>>
       ELSE Stored(u, d) = <<Some(ParsedSum(P))>>

\* C6 as amended: the value is None exactly when none of the rows had a
\* parseable value other than zero, and otherwise the sum of the parsed
\* values.
C6_SumOfNonZeroValues ==
  /\ DOMAIN users \subseteq LoadUIDs
  /\ \A u \in LoadUIDs, d \in LoadDates :
       LET R == RowsOf(u, d)
           P == {r \in R : /\ parse_value(r.order_value) # None
                           /\ parse_value(r.order_value)[1] # 0}
       IN IF R = {} THEN Stored(u, d) = <<>>
          ELSE IF P = {} THEN Stored(u, d) = <<None>>
          ELSE Stored(u, d) = <<Some(ParsedSum(P))>>

\* a date of a customer with three rows read, one without a value, the
\* others with values that were added up
C6_Witness ==
  \E u \in LoadUIDs, d \in LoadDates :
    /\ \E r \in RowsOf(u, d) : parse_value(r.order_value) = None
    /\ \E r \in RowsOf(u, d) : CopiesIn(r, rows) = 2 /\ r.order_value = "1"
    /\ Stored(u, d) = <<Some(2)>>

====
